---- MODULE Spec2Model ----
(***************************************************************************)
(* A model of the note store of Desktop_Client.py (class MarkdownNoteApp): *)
(* the in-memory mapping self.notes, the set self.pinned_notes, the open   *)
(* note, the list widget, the edit widget and the notes directories on     *)
(* disk.  Every handler of the class that touches the store is one action. *)
(*                                                                         *)
(* Strings are sequences of one-character strings, so that startswith,     *)
(* slicing, strip, lower and the substring test are computed as Python     *)
(* computes them.                                                          *)
(*                                                                         *)
(* update_list is modelled with the closing parenthesis of its sorted(...)  *)
(* call (source line 142) in place: as written the call is never closed.   *)
(***************************************************************************)
EXTENDS Integers, Sequences, FiniteSets, TLC

VARIABLES
    notes,        \* self.notes: title -> content
    pinned_notes, \* self.pinned_notes: set of titles
    current_note, \* self.current_note: <<>> is None, <<t>> is the title t
    text_area,    \* the text of self.text_area (without Tk's final newline)
    listbox,      \* the items of self.listbox, top to bottom
    selection,    \* self.listbox.curselection(): 0 is no selection, else an index
    notes_path,   \* self.notes_path
    disk,         \* the directory self.notes_path names: file name -> file (the files of a
                  \* directory the program has left are not kept: no handler reads them,
                  \* and set_notes_path enters no directory a second time)
    op,           \* the handler that ran last
    reports,      \* what that handler showed: messagebox calls and prints, in order
    io_errors,    \* how many file system calls have raised for a reason the model does not hold
    visited       \* the directories self.notes_path has named so far

vars == <<notes, pinned_notes, current_note, text_area, listbox, selection, notes_path, disk, op, reports, io_errors, visited>>

----------------------------------------------------------------------------
(* Bounds of the model *)

\* add_note and save_note are not taken when they would grow self.notes past this
MaxNotes == 2

\* at most this many file system calls raise in one run
MaxIOErrors == 1

----------------------------------------------------------------------------
(* Characters and strings *)

\* the characters of the model in code point order
CharOrder == <<"\n", " ", "#", ".", "/", "A", "B", "C", "a", "b", "c", "d", "e", "h", "i", "l", "m", "n", "p", "r", "t", "x", "y">>

Ord(c) == CHOOSE i \in 1..Len(CharOrder) : CharOrder[i] = c

\* str.lower on one character
LowerChar(c) == CASE c = "A" -> "a" [] c = "B" -> "b" [] c = "C" -> "c" [] OTHER -> c

\* str.lower
Lower(s) == [i \in 1..Len(s) |-> LowerChar(s[i])]

\* s < t on Python strings: lexicographic by code point, a proper prefix is smaller
StrLess(s, t) == \E k \in 1..Len(t) : /\ k - 1 <= Len(s)
                                      /\ \A i \in 1..(k - 1) : s[i] = t[i]
                                      /\ \/ k = Len(s) + 1
                                         \/ k <= Len(s) /\ Ord(s[k]) < Ord(t[k])

\* s.startswith(p)
StartsWith(s, p) == Len(s) >= Len(p) /\ SubSeq(s, 1, Len(p)) = p

\* s.endswith(p)
EndsWith(s, p) == Len(s) >= Len(p) /\ SubSeq(s, Len(s) - Len(p) + 1, Len(s)) = p

\* needle in hay
Contains(hay, needle) == \E i \in 0..(Len(hay) - Len(needle)) : SubSeq(hay, i + 1, i + Len(needle)) = needle

\* the characters of the model that str.strip removes
Whitespace == {" ", "\n"}

RECURSIVE LStrip(_)
LStrip(s) == IF s # <<>> /\ Head(s) \in Whitespace THEN LStrip(Tail(s)) ELSE s

RECURSIVE RStrip(_)
RStrip(s) == IF s # <<>> /\ s[Len(s)] \in Whitespace THEN RStrip(SubSeq(s, 1, Len(s) - 1)) ELSE s

\* str.strip()
Strip(s) == RStrip(LStrip(s))

\* the literal "#pinned\n" of load_notes, save_note and toggle_pin
Marker == <<"#", "p", "i", "n", "n", "e", "d", "\n">>

\* the 8 of self.notes[title][8:]
MarkerSlice == 8

\* self.default_extension
default_extension == <<".", "m", "d">>

\* the characters add_note removes from a title
InvalidChars == {"\\", "/", ":", "*", "?", "\"", "<", ">", "|"}

\* "".join(c for c in title if c not in '\\/:*?"<>|')
SafeTitle(title) == SelectSeq(title, LAMBDA c : c \notin InvalidChars)

----------------------------------------------------------------------------
(* The inputs the handlers draw from *)

\* what simpledialog.askstring returns in add_note (a cancelled or empty dialog is <<>>)
RawTitles == {<<>>, <<"/", "/", "/">>, <<"a">>, <<"a", "/">>, <<"A", "b">>}

\* every title the store can hold
Titles == {SafeTitle(t) : t \in RawTitles}

\* what the user types into the edit widget: a text, and a text whose first two
\* lines are both the marker line (toggle_pin then leaves the text with one)
TextInputs == {<<"x">>, Marker \o Marker \o <<"x">>}

\* what the user does to the edit widget before saving: <<>> is nothing,
\* <<text>> is replacing what it holds by text
Edits == {<<>>} \cup {<<text>> : text \in TextInputs}

\* what the user types into the search entry
Queries == {<<>>, <<"b">>, <<"A">>}

\* the directories filedialog.askdirectory can return, and the configured one
Dirs == {"d1", "d2"}

\* the outcomes of open(path, 'w') followed by file.write(content):
\* written; open raised; open truncated the file and the write raised
WriteOutcomes == {"ok", "open_fails", "write_fails"}

----------------------------------------------------------------------------
(* The notes directories *)

\* os.path.join(self.notes_path, f"{title}{self.default_extension}"), within its directory
get_note_path(title) == title \o default_extension

\* a file that is no note: its name does not end in .md
OtherFile == <<"a", ".", "t", "x", "t">>

\* the file names of the model
Files == {get_note_path(t) : t \in Titles} \cup {OtherFile}

NoFile == [st |-> "none", data |-> <<>>]

\* a file whose open or read raises IOError or UnicodeDecodeError
BadFile == [st |-> "bad", data |-> <<>>]

TextFile(content) == [st |-> "ok", data |-> content]

\* os.listdir
ListDir(dir) == {f \in Files : dir[f].st # "none"}

\* filename[:-len(self.default_extension)]
TitleOf(filename) == SubSeq(filename, 1, Len(filename) - Len(default_extension))

\* FileAfterWrite with a write that never reaches the file
FileAfterWrite_Lost(old, content, w) == old

\* the file a write leaves behind
FileAfterWrite(old, content, w) == CASE w = "ok" -> TextFile(content) [] w = "open_fails" -> old [] OTHER -> TextFile(<<>>)

\* the disk after save_note_to_file(title, content)
save_note_to_file(title, content, w) == [disk EXCEPT ![get_note_path(title)] = FileAfterWrite(@, content, w)]

\* what save_note_to_file shows
SaveReport(w) == IF w = "ok" THEN <<>> ELSE <<"showerror: Failed to save note">>

\* self.notes[key] = value
DictSet(d, key, value) == [t \in DOMAIN d \cup {key} |-> IF t = key THEN value ELSE d[t]]

\* del self.notes[key]
DictDel(d, key) == [t \in DOMAIN d \ {key} |-> d[t]]

\* LoadedTitles with a load that gives up at the first file it cannot read
LoadedTitles_AbortOnBad(dir) == IF \E g \in ListDir(dir) : dir[g].st = "bad" THEN {} ELSE {TitleOf(f) : f \in {g \in ListDir(dir) : EndsWith(g, default_extension)}}

\* the titles load_notes reads from a directory holding the files dir
LoadedTitles(dir) == {TitleOf(f) : f \in {g \in ListDir(dir) : EndsWith(g, default_extension) /\ dir[g].st = "ok"}}

\* self.notes after load_notes; listing_ok is whether os.listdir succeeded
LoadedNotes(dir, listing_ok) == IF listing_ok THEN [t \in LoadedTitles(dir) |-> dir[get_note_path(t)].data] ELSE <<>>

\* self.pinned_notes after load_notes
LoadedPinned(dir, listing_ok) == IF listing_ok THEN {t \in LoadedTitles(dir) : StartsWith(dir[get_note_path(t)].data, Marker)} ELSE {}

RECURSIVE Repeat(_, _)
Repeat(x, n) == IF n = 0 THEN <<>> ELSE <<x>> \o Repeat(x, n - 1)

\* what load_notes reports: one print per unreadable note, or the directory error
LoadReports(dir, listing_ok) == IF listing_ok THEN Repeat("print: Error loading note", Cardinality({g \in ListDir(dir) : EndsWith(g, default_extension) /\ dir[g].st = "bad"})) ELSE <<"showerror: Failed to access notes directory">>

----------------------------------------------------------------------------
(* update_list *)

\* KeyLess with x where the code has x.lower()
KeyLess_CaseSensitive(x, y, pinned) == \/ x \in pinned /\ y \notin pinned
                                       \/ (x \in pinned <=> y \in pinned) /\ StrLess(x, y)

\* key(x) < key(y) for key = lambda x: (x not in self.pinned_notes, x.lower())
KeyLess(x, y, pinned) == \/ x \in pinned /\ y \notin pinned
                         \/ (x \in pinned <=> y \in pinned) /\ StrLess(Lower(x), Lower(y))

\* sorted(keys, key=...): the orders of keys in which no key precedes a smaller one
\* (keys whose sort keys are equal keep the order of the dict, which os.listdir and
\* the order of the adds decide: either order is possible)
RECURSIVE Sorted(_, _)
Sorted(keys, pinned) == IF keys = {} THEN {<<>>} ELSE UNION {{<<m>> \o r : r \in Sorted(keys \ {m}, pinned)} : m \in {x \in keys : \A y \in keys : ~KeyLess(y, x, pinned)}}

\* filter_text.lower() in title.lower()
Matches(title, filter_text) == Contains(Lower(title), Lower(filter_text))

\* the items update_list(filter_text) can put into the list widget
update_list(ns, pinned, filter_text) == {SelectSeq(s, LAMBDA t : Matches(t, filter_text)) : s \in Sorted(DOMAIN ns, pinned)}

----------------------------------------------------------------------------
(* The state after __init__ *)

\* what a note file can hold when the program starts
InitFileValues == {NoFile, BadFile, TextFile(<<>>), TextFile(Marker \o <<"x">>)}

\* a directory holding the notes a and Ab with the given files, and a file that is no note
DirWith(fa, fb) == [f \in Files |-> CASE f = get_note_path(<<"a">>) -> fa [] f = get_note_path(<<"A", "b">>) -> fb [] f = OtherFile -> TextFile(<<"x">>) [] OTHER -> NoFile]

\* the directories the program can start on
InitDirs == {DirWith(fa, fb) : fa \in InitFileValues, fb \in InitFileValues}

\* the files of the directory the user moves to
OtherDir(dir) == DirWith(TextFile(<<"x">>), BadFile)

Init == \E d0 \in InitDirs, listing_ok \in BOOLEAN :
          /\ disk = d0
          /\ notes_path = "d1"
          /\ visited = {"d1"}
          /\ notes = LoadedNotes(d0, listing_ok)
          /\ pinned_notes = LoadedPinned(d0, listing_ok)
          /\ reports = LoadReports(d0, listing_ok)
          /\ io_errors = IF listing_ok THEN 0 ELSE 1
          /\ current_note = <<>>
          /\ text_area = <<>>
          /\ listbox \in update_list(notes, pinned_notes, <<>>)
          /\ selection = 0
          /\ op = "__init__"

----------------------------------------------------------------------------
(* The handlers *)

\* a file system call with the given outcome can happen: the outcome is a success,
\* or one more call may raise
Raises(failed) == /\ failed => io_errors < MaxIOErrors
                  /\ io_errors' = IF failed THEN io_errors + 1 ELSE io_errors

\* load_selected_note for the item at index i of the new list lb, over the mapping ns
LoadSelected(lb, i, ns) == /\ selection' = i
                           /\ current_note' = <<lb[i]>>
                           /\ text_area' = ns[lb[i]]

\* the user clicks item i of the list: <<ListboxSelect>> runs load_selected_note
load_selected_note(i) == /\ i \in 1..Len(listbox)
                         /\ LoadSelected(listbox, i, notes)
                         /\ op' = "load_selected_note"
                         /\ reports' = <<>>
                         /\ UNCHANGED <<notes, pinned_notes, listbox, notes_path, disk, io_errors, visited>>

\* the warning add_note shows when it removed characters
TitleWarning(title) == IF SafeTitle(title) # title THEN <<"showwarning: Removed invalid characters">> ELSE <<>>

\* TitleTaken with the title as the user gave it
TitleTaken_Raw(title, safe_title) == title \in DOMAIN notes

\* safe_title in self.notes
TitleTaken(title, safe_title) == safe_title \in DOMAIN notes

add_note(title, w) == LET safe_title == SafeTitle(title) IN
    /\ title # <<>>
    /\ op' = "add_note"
    /\ IF TitleTaken(title, safe_title)
       THEN /\ reports' = TitleWarning(title) \o <<"showerror: Note with this title already exists!">>
            /\ w = "ok"
            /\ UNCHANGED <<notes, pinned_notes, current_note, text_area, listbox, selection, notes_path, disk, io_errors, visited>>
       ELSE /\ Cardinality(DOMAIN notes) < MaxNotes
            /\ Raises(w # "ok")
            /\ notes' = DictSet(notes, safe_title, <<>>)
            /\ disk' = save_note_to_file(safe_title, <<>>, w)
            /\ reports' = TitleWarning(title) \o SaveReport(w)
            /\ UNCHANGED <<pinned_notes, notes_path, visited>>
            /\ IF w = "ok"
               THEN \E lb \in update_list(notes', pinned_notes, <<>>) :
                        /\ listbox' = lb
                        /\ LoadSelected(lb, Len(lb), notes')
               ELSE UNCHANGED <<current_note, text_area, listbox, selection>>

\* PinnedAfterDelete without the removal
PinnedAfterDelete_Kept(title) == pinned_notes

\* self.pinned_notes after delete_note removed the file of title
PinnedAfterDelete(title) == pinned_notes \ {title}

\* delete_note with the store updated before os.remove is tried
delete_note_StoreFirst(rm) == LET title == listbox[selection] IN
    /\ selection # 0
    /\ op' = "delete_note"
    /\ rm => disk[get_note_path(title)].st # "none"
    /\ Raises(~rm /\ disk[get_note_path(title)].st # "none")
    /\ pinned_notes' = PinnedAfterDelete(title)
    /\ notes' = DictDel(notes, title)
    /\ disk' = IF rm THEN [disk EXCEPT ![get_note_path(title)] = NoFile] ELSE disk
    /\ reports' = IF rm THEN <<>> ELSE <<"showerror: Failed to delete note">>
    /\ listbox' \in update_list(notes', pinned_notes', <<>>)
    /\ selection' = 0
    /\ text_area' = <<>>
    /\ current_note' = <<>>
    /\ UNCHANGED <<notes_path, visited>>

\* rm is whether os.remove succeeds: it raises when the file is not there
delete_note(rm) == LET title == listbox[selection] IN
    /\ selection # 0
    /\ op' = "delete_note"
    /\ rm => disk[get_note_path(title)].st # "none"
    /\ Raises(~rm /\ disk[get_note_path(title)].st # "none")
    /\ IF rm
       THEN /\ disk' = [disk EXCEPT ![get_note_path(title)] = NoFile]
            /\ pinned_notes' = PinnedAfterDelete(title)
            /\ notes' = DictDel(notes, title)
            /\ listbox' \in update_list(notes', pinned_notes', <<>>)
            /\ selection' = 0
            /\ text_area' = <<>>
            /\ current_note' = <<>>
            /\ reports' = <<>>
            /\ UNCHANGED <<notes_path, visited>>
       ELSE /\ reports' = <<"showerror: Failed to delete note">>
            /\ UNCHANGED <<notes, pinned_notes, current_note, text_area, listbox, selection, notes_path, disk, visited>>

\* self.text_area.get("1.0", tk.END): the text and the newline Tk ends it with
TextAreaGet(text) == text \o <<"\n">>

\* self.pinned_notes after save_note wrote content for title
PinnedAfterSave(title, content) == IF StartsWith(content, Marker) THEN pinned_notes \cup {title} ELSE pinned_notes \ {title}

\* edit is what the user did to the edit widget since load_selected_note, delete_note
\* or the last save filled it
save_note(edit, w) == LET text == IF edit = <<>> THEN text_area ELSE edit[1]
                          content == Strip(TextAreaGet(text)) IN
    /\ current_note # <<>>
    /\ current_note[1] # <<>>
    /\ current_note[1] \in DOMAIN notes \/ Cardinality(DOMAIN notes) < MaxNotes
    /\ op' = "save_note"
    /\ Raises(w # "ok")
    /\ notes' = DictSet(notes, current_note[1], content)
    /\ disk' = save_note_to_file(current_note[1], content, w)
    /\ reports' = SaveReport(w)
    /\ text_area' = text
    /\ UNCHANGED <<current_note, notes_path, visited>>
    /\ IF w = "ok"
       THEN /\ pinned_notes' = PinnedAfterSave(current_note[1], content)
            /\ listbox' \in update_list(notes', pinned_notes', <<>>)
            /\ selection' = 0
       ELSE UNCHANGED <<pinned_notes, listbox, selection>>

\* the content toggle_pin leaves for a note
ToggledContent(content, was_pinned) == IF was_pinned
                                       THEN IF StartsWith(content, Marker) THEN SubSeq(content, MarkerSlice + 1, Len(content)) ELSE content
                                       ELSE IF ~StartsWith(content, Marker) THEN Marker \o content ELSE content

\* self.pinned_notes after toggle_pin
ToggledPinned(title, pinned) == IF title \in pinned THEN pinned \ {title} ELSE pinned \cup {title}

toggle_pin(w) == LET title == listbox[selection] IN
    /\ selection # 0
    /\ op' = "toggle_pin"
    /\ Raises(w # "ok")
    /\ pinned_notes' = ToggledPinned(title, pinned_notes)
    /\ notes' = [notes EXCEPT ![title] = ToggledContent(@, title \in pinned_notes)]
    /\ disk' = save_note_to_file(title, notes'[title], w)
    /\ reports' = SaveReport(w)
    /\ listbox' \in update_list(notes', pinned_notes', <<>>)
    /\ selection' = 0
    /\ UNCHANGED <<current_note, text_area, notes_path, visited>>

search_notes(query) == /\ op' = "search_notes"
                       /\ listbox' \in update_list(notes, pinned_notes, query)
                       /\ selection' = 0
                       /\ reports' = <<>>
                       /\ UNCHANGED <<notes, pinned_notes, current_note, text_area, notes_path, disk, io_errors, visited>>

\* new_path is the directory the user chose: the current one, or one not yet visited;
\* listing_ok is whether os.listdir succeeds
set_notes_path(new_path, listing_ok) ==
    /\ op' = "set_notes_path"
    /\ new_path = notes_path \/ new_path \notin visited
    /\ Raises(~listing_ok)
    /\ notes_path' = new_path
    /\ visited' = visited \cup {new_path}
    /\ disk' = IF new_path = notes_path THEN disk ELSE OtherDir(new_path)
    /\ notes' = LoadedNotes(disk', listing_ok)
    /\ pinned_notes' = LoadedPinned(disk', listing_ok)
    /\ reports' = LoadReports(disk', listing_ok)
    /\ listbox' \in update_list(notes', pinned_notes', <<>>)
    /\ selection' = 0
    /\ UNCHANGED <<current_note, text_area>>

Next == \/ \E i \in 1..MaxNotes : load_selected_note(i)
        \/ \E title \in RawTitles, w \in WriteOutcomes : add_note(title, w)
        \/ \E rm \in BOOLEAN : delete_note(rm)
        \/ \E edit \in Edits, w \in WriteOutcomes : save_note(edit, w)
        \/ \E w \in WriteOutcomes : toggle_pin(w)
        \/ \E query \in Queries : search_notes(query)
        \/ \E new_path \in Dirs, listing_ok \in BOOLEAN : set_notes_path(new_path, listing_ok)

Spec == Init /\ [][Next]_vars

----------------------------------------------------------------------------
(* Properties *)

\* the file of the note t in the current directory
Unit(t) == disk[get_note_path(t)]

\* the store holds what a reload of the current directory would give it
Synced == /\ notes = LoadedNotes(disk, TRUE)
          /\ pinned_notes = LoadedPinned(disk, TRUE)

\* C1: in every reachable state a title is in the pinned set if and only if it is
\* a key of the mapping whose content starts with the marker line "#pinned\n".
C1_PinnedIffMarker == \A t \in Titles : t \in pinned_notes <=> (t \in DOMAIN notes /\ StartsWith(notes[t], Marker))

\* C2: after every completed operation, every title of the mapping has its
\* storage unit {title}.md in the current notes location.
C2_EveryEntryPersisted == \A t \in DOMAIN notes : Unit(t).st # "none"

\* C3: a mutation (add, save, togglePin, delete) of a store that equals what a
\* reload gives leaves a store that equals what a reload gives.
C3_MutationsPersisted == [][(Synced /\ op' \in {"add_note", "save_note", "toggle_pin", "delete_note"}) => Synced']_vars

\* C4: the pinned set is a subset of the keys of the mapping in every reachable
\* state, and when delete_note removed the file of a title, the title is in neither.
C4_PinnedWithinNotes == /\ [](pinned_notes \subseteq DOMAIN notes)
                        /\ [][(op' = "delete_note" /\ delete_note(TRUE)) => (listbox[selection] \notin DOMAIN notes' /\ listbox[selection] \notin pinned_notes')]_vars

\* a delete_note has just removed a note from a store that still pins another
C4_Witness == op = "delete_note" /\ reports = <<>> /\ pinned_notes # {}

\* C5: add with a title that is empty or made of reserved characters only inserts
\* no entry (none keyed by the empty string) and writes no storage unit.
C5_InvalidTitleRejected == [][\A title \in RawTitles, w \in WriteOutcomes : (SafeTitle(title) = <<>> /\ op' = "add_note" /\ add_note(title, w)) => (notes' = notes /\ disk' = disk /\ <<>> \notin DOMAIN notes')]_vars

\* C6: add with a title whose sanitized form is a key of the mapping reports the
\* duplicate and leaves the mapping, the pinned set and the storage units as they were.
C6_DuplicateAddRejected == [][\A title \in RawTitles, w \in WriteOutcomes : (SafeTitle(title) \in DOMAIN notes /\ op' = "add_note" /\ add_note(title, w)) => (notes' = notes /\ pinned_notes' = pinned_notes /\ disk' = disk /\ reports' # <<>> /\ reports'[Len(reports')] = "showerror: Note with this title already exists!")]_vars

\* add_note has just refused a title that sanitization made a duplicate of a pinned note
C6_Witness == /\ op = "add_note"
              /\ reports = <<"showwarning: Removed invalid characters", "showerror: Note with this title already exists!">>
              /\ <<"a">> \in pinned_notes

\* C7: when os.remove fails (an I/O error, or no such file), delete_note leaves the
\* mapping and the pinned set as they were and reports the failure.
C7_FailedDeleteKeepsStore == [][(op' = "delete_note" /\ delete_note(FALSE)) => (notes' = notes /\ pinned_notes' = pinned_notes /\ reports' = <<"showerror: Failed to delete note">>)]_vars

\* delete_note has just failed on a note of the mapping that has no file
C7_Witness == /\ op = "delete_note"
              /\ reports = <<"showerror: Failed to delete note">>
              /\ selection # 0
              /\ listbox[selection] \in DOMAIN notes
              /\ Unit(listbox[selection]).st = "none"

\* delete_note has just failed on a pinned note whose file is there
C7_WitnessIOError == /\ op = "delete_note"
                     /\ reports = <<"showerror: Failed to delete note">>
                     /\ selection # 0
                     /\ listbox[selection] \in pinned_notes
                     /\ Unit(listbox[selection]).st = "ok"

\* C8: a second toggle_pin on the note a toggle_pin has just toggled gives back the
\* content and the pinned status the note had before the first.
C8_ToggleTwiceRestores == [][\A w \in WriteOutcomes : (op' = "toggle_pin" /\ toggle_pin(w)) => (/\ ToggledContent(notes'[listbox[selection]], listbox[selection] \in pinned_notes') = notes[listbox[selection]]
                                                                                                 /\ ToggledPinned(listbox[selection], pinned_notes') = pinned_notes)]_vars

\* isValid of the spec: not empty, no reserved character
IsValidTitle(title) == title # <<>> /\ \A i \in 1..Len(title) : title[i] \notin InvalidChars

\* the titles in a list
Items(lb) == {lb[i] : i \in 1..Len(lb)}

\* C9: add of a valid title that is not in the store, when its write succeeds, gives
\* the title empty content in the mapping and an empty storage unit, lists every
\* title of the mapping (so two adds in a row list both), and leaves the notes
\* already present, their units and the pinned set as they were.
C9_AddCreatesEmptyNote == [][\A title \in RawTitles : (IsValidTitle(title) /\ title \notin DOMAIN notes /\ op' = "add_note" /\ add_note(title, "ok")) =>
                               (/\ DOMAIN notes' = DOMAIN notes \cup {title}
                                /\ notes'[title] = <<>>
                                /\ disk'[get_note_path(title)] = TextFile(<<>>)
                                /\ Items(listbox') = DOMAIN notes'
                                /\ reports' = <<>>
                                /\ pinned_notes' = pinned_notes
                                /\ \A t \in DOMAIN notes : notes'[t] = notes[t] /\ disk'[get_note_path(t)] = disk[get_note_path(t)])]_vars

\* two notes were added one after the other: both are listed, empty and persisted
C9_Witness == /\ op = "add_note"
              /\ reports = <<>>
              /\ notes = (<<"a">> :> <<>> @@ <<"A", "b">> :> <<>>)
              /\ listbox = <<<<"a">>, <<"A", "b">>>>
              /\ Unit(<<"a">>) = TextFile(<<>>)
              /\ Unit(<<"A", "b">>) = TextFile(<<>>)
              /\ current_note = <<<<"A", "b">>>>

\* two characters are the same letter in either case
SameLetter(c, d) == c = d \/ <<c, d>> \in {<<"A", "a">>, <<"a", "A">>, <<"B", "b">>, <<"b", "B">>, <<"C", "c">>, <<"c", "C">>}

\* title contains filter as a substring, case ignored
ContainsIgnoringCase(title, filter) == \E i \in 0..(Len(title) - Len(filter)) : \A j \in 1..Len(filter) : SameLetter(title[i + j], filter[j])

\* s does not come after t in case-insensitive lexicographic order
RECURSIVE NotAfterIgnoringCase(_, _)
NotAfterIgnoringCase(s, t) == \/ s = <<>>
                              \/ /\ t # <<>>
                                 /\ \/ Ord(LowerChar(Head(s))) < Ord(LowerChar(Head(t)))
                                    \/ SameLetter(Head(s), Head(t)) /\ NotAfterIgnoringCase(Tail(s), Tail(t))

\* lb is the list of the spec for the mapping keys, the pinned set and the filter
IsListing(lb, keys, pinned, filter) ==
    /\ Items(lb) = {t \in keys : ContainsIgnoringCase(t, filter)}
    /\ \A i, j \in 1..Len(lb) : i < j => /\ lb[i] # lb[j]
                                         /\ lb[j] \in pinned => lb[i] \in pinned
                                         /\ (lb[i] \in pinned <=> lb[j] \in pinned) => NotAfterIgnoringCase(lb[i], lb[j])

Banana == <<"B", "a", "n", "a", "n", "a">>

apple == <<"a", "p", "p", "l", "e">>

Cherry == <<"C", "h", "e", "r", "r", "y">>

\* the examples of the spec: {Banana, apple, Cherry} with Cherry pinned lists as
\* [Cherry, apple, Banana], and list("an") with none pinned is [Banana]
ListExamples == /\ update_list([t \in {Banana, apple, Cherry} |-> <<>>], {Cherry}, <<>>) = {<<Cherry, apple, Banana>>}
                /\ update_list([t \in {Banana, apple, Cherry} |-> <<>>], {}, <<"a", "n">>) = {<<Banana>>}

\* a handler that ends in update_list() has just run to its end
Relisted == \/ op' \in {"toggle_pin", "set_notes_path"}
            \/ op' \in {"add_note", "delete_note", "save_note"} /\ reports' \in {<<>>, <<"showwarning: Removed invalid characters">>}

C10_WitnessPinnedFirst == /\ op = "toggle_pin"
                          /\ pinned_notes = {<<"A", "b">>}
                          /\ listbox = <<<<"A", "b">>, <<>>, <<"a">>>>

\* load_notes has just run with a directory it could list
Loaded == op \in {"__init__", "set_notes_path"} /\ "showerror: Failed to access notes directory" \notin Items(reports)

\* C11: when load_notes has run on a directory it could list, every note file it
\* can read is in the mapping with the file's content and is pinned exactly when
\* that content starts with the marker line, every note file it cannot read is
\* left out, and what is reported is one non-fatal message per unreadable file.
C11_LoadSkipsOnlyUnreadable == Loaded => /\ \A t \in Titles : /\ Unit(t).st = "ok" => /\ t \in DOMAIN notes
                                                                                     /\ notes[t] = Unit(t).data
                                                                                     /\ t \in pinned_notes <=> StartsWith(Unit(t).data, Marker)
                                                              /\ Unit(t).st # "ok" => t \notin DOMAIN notes
                                         /\ Len(reports) = Cardinality({t \in Titles : Unit(t).st = "bad"})
                                         /\ \A i \in 1..Len(reports) : reports[i] = "print: Error loading note"

\* a reload has just skipped the unreadable Ab.md and loaded the pinned note a
C11_Witness == /\ op = "set_notes_path"
               /\ reports = <<"print: Error loading note">>
               /\ Unit(<<"A", "b">>).st = "bad"
               /\ DOMAIN notes = {<<"a">>}
               /\ notes[<<"a">>] = Marker \o <<"x">>
               /\ pinned_notes = {<<"a">>}

\* the note that is open is a key whose file holds its content and whose pinned
\* status is the one its content gives
OpenNoteSettled == /\ current_note # <<>>
                   /\ current_note[1] \in DOMAIN notes
                   /\ Unit(current_note[1]) = TextFile(notes[current_note[1]])
                   /\ current_note[1] \in pinned_notes <=> StartsWith(notes[current_note[1]], Marker)

\* C12: save_note right after load_selected_note, with nothing typed and a write
\* that succeeds, leaves the mapping, the pinned set and the files as they were.
C12_SaveUneditedIsNoOp == [][(op = "load_selected_note" /\ OpenNoteSettled /\ op' = "save_note" /\ save_note(<<>>, "ok")) => (notes' = notes /\ pinned_notes' = pinned_notes /\ disk' = disk)]_vars

\* C13: in every reachable state current_note is None or a key of the mapping, and
\* save_note adds no key to the mapping and creates no file.
C13_OpenNoteIsKey == /\ [](current_note = <<>> \/ current_note[1] \in DOMAIN notes)
                     /\ [][op' = "save_note" => (DOMAIN notes' = DOMAIN notes /\ ListDir(disk') = ListDir(disk))]_vars

====
